---- MODULE Spec2Model ----
(***************************************************************************)
(* Locator of happy-css-modules (loader/index.ts): the per-file load       *)
(* engine, its mtime cache and its in-flight flag.                         *)
(*                                                                         *)
(* One top-level load is a chain of _load activations (the variable        *)
(* stack); every await of the code is one step of the model, and the       *)
(* synchronous code between two awaits belongs to the step that reaches    *)
(* it.  The file system is the environment: another process may modify a   *)
(* file between any two steps.                                             *)
(***************************************************************************)
EXTENDS Integers, Sequences, FiniteSets, TLC

\* ------------------------------------------------------------------ bounds
MaxCalls == 2      \* calls of load() made by the caller
MaxTouches == 1    \* modifications of files made by other processes
MaxDepth == 3      \* nested _load activations explored

\* ------------------------------------------------- the files on the disk
\* A class selector of the parsed sheet; global is TRUE inside :global(...).
Cls(v, l, g) == [value |-> v, line |-> l, global |-> g]
\* `@value tokenName: ...` as parseAtValue returns it.
ValDecl(n, l) == [type |-> "valueDeclaration", tokenName |-> n, line |-> l]
\* `@value a, b as c from "..."` as parseAtValue returns it.
ValImport(f, imps) == [type |-> "valueImportDeclaration", from |-> f, imports |-> imps]
Imp(local, imported) == [localTokenName |-> local, importedTokenName |-> imported]
\* A dependency reported by a transformer: a string or a URL object.
DepStr(s) == [kind |-> "string", protocol |-> "", pathname |-> s]
DepUrl(p, s) == [kind |-> "url", protocol |-> p, pathname |-> s]

Sheet(valid, handled, tdeps, imports, classes, values, composes) ==
    [valid |-> valid, handled |-> handled, tdeps |-> tdeps, atImports |-> imports,
     classSelectors |-> classes, atValues |-> values, composes |-> composes]

Paths == {"base.css", "composer.css", "index.css", "app.css", "loop.css", "theme.scss",
          "_vars.scss", "bad.css", "broken.css", "ftp.less", "ghost.css", "values.css",
          "outer.css", "cdn.less"}
\* Paths the resolver can name but that are not on the disk.
Missing == {"ghost.css"}
\* Files other processes modify while the Locator lives.
Touchable == {"base.css"}
\* The paths the caller passes to load().
Roots == Paths

Versions(f) == IF f = "base.css" THEN {1, 2} ELSE {1}

\* What readFile, the transformer and postcss.parse give for version v of f.
Content(f, v) ==
    CASE f = "base.css" /\ v = 1 ->
           Sheet(TRUE, FALSE, <<>>, <<>>, <<Cls("base", 1, FALSE)>>, <<>>, <<>>)
      [] f = "base.css" /\ v = 2 ->
           Sheet(TRUE, FALSE, <<>>, <<>>,
                 <<Cls("base", 1, FALSE), Cls("extra", 2, FALSE)>>, <<>>, <<>>)
      [] f = "composer.css" ->
           Sheet(TRUE, FALSE, <<>>, <<>>, <<Cls("root", 1, FALSE)>>, <<>>, <<"./base.css">>)
      [] f = "index.css" ->
           Sheet(TRUE, FALSE, <<>>,
                 <<"./base.css", "https://cdn/reset.css", "url(", "./base.css">>,
                 <<Cls("page", 5, TRUE)>>, <<>>, <<>>)
      [] f = "app.css" ->
           Sheet(TRUE, FALSE, <<>>, <<"./index.css", "./base.css">>,
                 <<Cls("app", 3, FALSE)>>,
                 <<ValDecl("gap", 4), ValImport("./base.css", <<Imp("b", "base")>>)>>, <<>>)
      [] f = "loop.css" ->
           Sheet(TRUE, FALSE, <<>>, <<"./loop.css">>, <<Cls("loop", 2, FALSE)>>, <<>>, <<>>)
      [] f = "theme.scss" ->
           Sheet(TRUE, TRUE,
                 <<DepStr("theme.scss"), DepUrl("file:", "_vars.scss"),
                   DepStr("http://cdn/mixins.scss"), DepStr("theme.scss")>>,
                 <<>>, <<Cls("theme", 1, FALSE)>>, <<>>, <<>>)
      [] f = "_vars.scss" ->
           Sheet(TRUE, TRUE, <<>>, <<>>, <<>>, <<>>, <<>>)
      [] f = "bad.css" ->
           Sheet(FALSE, FALSE, <<>>, <<>>, <<>>, <<>>, <<>>)
      [] f = "broken.css" ->
           Sheet(TRUE, FALSE, <<>>, <<"./base.css", "./nope.css">>,
                 <<Cls("broken", 3, FALSE)>>, <<>>, <<>>)
      [] f = "ftp.less" ->
           Sheet(TRUE, TRUE, <<DepUrl("ftp:", "mixins.less")>>, <<>>,
                 <<Cls("ftp", 1, FALSE)>>, <<>>, <<>>)
      [] f = "values.css" ->
           Sheet(TRUE, FALSE, <<>>, <<>>, <<>>,
                 <<ValDecl("primary", 1),
                   ValImport("https://cdn/values.css", <<Imp("remote", "remote")>>),
                   ValImport("./base.css",
                             <<Imp("base", "base"), Imp("x", "extra"), Imp("nope", "nope")>>)>>,
                 <<>>)
      [] f = "outer.css" ->
           Sheet(TRUE, FALSE, <<>>, <<"./broken.css">>, <<Cls("outer", 2, FALSE)>>, <<>>, <<>>)
      [] f = "cdn.less" ->
           Sheet(TRUE, TRUE, <<DepUrl("https:", "lib.less")>>, <<>>,
                 <<Cls("cdn", 1, FALSE)>>, <<>>, <<>>)
      [] OTHER ->
           Sheet(TRUE, FALSE, <<>>, <<>>, <<>>, <<>>, <<>>)

\* The resolver given to the Locator: the path of a specifier, or FALSE.
ResolverTable(specifier) ==
    CASE specifier = "./base.css" -> <<"base.css">>
      [] specifier = "./index.css" -> <<"index.css">>
      [] specifier = "./loop.css" -> <<"loop.css">>
      [] specifier = "./broken.css" -> <<"broken.css">>
      [] OTHER -> <<>>

\* ------------------------------------------------------------- pure parts
\* isIgnoredSpecifier: specifier.startsWith('http://') || startsWith('https://')
StartsWithHttp == {"http://cdn/mixins.scss"}
StartsWithHttps == {"https://cdn/reset.css", "https://cdn/values.css"}
\* As isIgnoredSpecifier, without the test for `https://`.
isIgnoredSpecifier_HttpOnly(specifier) == specifier \in StartsWithHttp

isIgnoredSpecifier(specifier) ==
    specifier \in StartsWithHttp \/ specifier \in StartsWithHttps

\* parseAtImport: the specifier of an @import, or nothing when it has none.
parseAtImport(atImport) == IF atImport = "url(" THEN <<>> ELSE <<atImport>>

\* generateLocalTokenNames: the names postcss-modules exports for the sheet.
generateLocalTokenNames(css) ==
    {css.classSelectors[k].value : k \in {n \in DOMAIN css.classSelectors :
                                              ~css.classSelectors[n].global}}

\* collectNodes: the @import at-rules, @value at-rules and class selectors.
collectNodes(css) ==
    [atImports |-> css.atImports, atValues |-> css.atValues,
     classSelectors |-> css.classSelectors]

Undefined == "undefined"
Location(f, l) == [filePath |-> f, line |-> l]
Token(n, imported, loc) == [name |-> n, importedName |-> imported, originalLocation |-> loc]

\* JSON.stringify(token): an absent importedName leaves no key in the text.
JSONstringify(token) ==
    IF token.importedName = Undefined
    THEN [name |-> token.name, originalLocation |-> token.originalLocation]
    ELSE [name |-> token.name, importedName |-> token.importedName,
          originalLocation |-> token.originalLocation]

RECURSIVE uniqueByKeys(_, _)
\* uniqueBy(arr, fn) on the list of keys: keeps the first element of each key.
uniqueByKeys(arr, keys) ==
    IF arr = <<>> THEN <<>>
    ELSE LET n == Len(arr)
             init == uniqueByKeys(SubSeq(arr, 1, n - 1), SubSeq(keys, 1, n - 1))
         IN IF \E k \in 1..(n - 1) : keys[k] = keys[n] THEN init
            ELSE Append(init, arr[n])

uniqueTokens(tokens) ==
    uniqueByKeys(tokens, [k \in DOMAIN tokens |-> JSONstringify(tokens[k])])

unique(arr) == uniqueByKeys(arr, arr)

RECURSIVE Filter(_, _)
\* Array.prototype.filter((dep) => dep !== filePath)
Filter(arr, filePath) ==
    IF arr = <<>> THEN <<>>
    ELSE LET rest == Filter(Tail(arr), filePath)
         IN IF Head(arr) # filePath THEN <<Head(arr)>> \o rest ELSE rest

\* As NormaliseDeps, without `.filter((dep) => !isIgnoredSpecifier(dep))`.
NormaliseDeps_NoFilter(tdeps) ==
    IF \E n \in DOMAIN tdeps : tdeps[n].kind = "url" /\ tdeps[n].protocol # "file:"
    THEN [throw |-> TRUE, deps |-> <<>>]
    ELSE [throw |-> FALSE, deps |-> [n \in DOMAIN tdeps |-> tdeps[n].pathname]]

RECURSIVE NormaliseDeps(_)
\* readCSS: result.dependencies.map(...).filter(...); "throw" marks the
\* exception of the map callback.
NormaliseDeps(tdeps) ==
    IF tdeps = <<>> THEN [throw |-> FALSE, deps |-> <<>>]
    ELSE LET dep == Head(tdeps)
             rest == NormaliseDeps(Tail(tdeps))
         IN IF dep.kind = "url" /\ dep.protocol # "file:"
            THEN [throw |-> TRUE, deps |-> <<>>]
            ELSE IF rest.throw THEN rest
            ELSE IF isIgnoredSpecifier(dep.pathname) THEN rest
            ELSE [throw |-> FALSE, deps |-> <<dep.pathname>> \o rest.deps]

\* ------------------------------------------------------------------ state
VARIABLES
    disk,          \* path -> [mtime, ver]: what stat and readFile see
    cache,         \* Locator.cache: path -> [mtime, result], on the cached paths
    loading,       \* Locator.loading
    stack,         \* the _load activations of the load in flight, innermost last
    settled,       \* the promise of load() that settled last
    reads,         \* history: the files readFile was called on by the load in flight
    dirty,         \* history: a file was modified since the load in flight was accepted
    stale,         \* history: dependencies of the root modified before the call
    clean,         \* history: path -> result of its last load with no modification since
    touchedSince,  \* history: path -> files modified since its cache entry was stored
    ncalls,        \* calls of load() so far
    ntouches       \* modifications so far

vars == <<disk, cache, loading, stack, settled, reads, dirty, stale, clean,
          touchedSince, ncalls, ntouches>>

EmptyResult == [dependencies |-> <<>>, tokens |-> <<>>]
Range(seq) == {seq[k] : k \in DOMAIN seq}

Promise(f, status, error, value, prev) ==
    [file |-> f, status |-> status, error |-> error, value |-> value,
     prev |-> prev, reads |-> reads, stale |-> stale]

Init ==
    /\ disk = [f \in Paths \ Missing |-> [mtime |-> 1, ver |-> 1]]
    /\ cache = <<>>
    /\ loading = FALSE
    /\ stack = <<>>
    /\ settled = [file |-> "", status |-> "none", error |-> "none", value |-> EmptyResult,
                  prev |-> <<>>, reads |-> {}, stale |-> {}]
    /\ reads = {}
    /\ dirty = FALSE
    /\ stale = {}
    /\ clean = [f \in Paths |-> <<>>]
    /\ touchedSince = [f \in Paths |-> {}]
    /\ ncalls = 0
    /\ ntouches = 0

Top == stack[Len(stack)]
SetTop(fr) == [stack EXCEPT ![Len(stack)] = fr]

\* _load(filePath) up to its first await: isCacheOutdated looks the entry up
\* and, when there is none, answers true without a stat.
NewFrame(filePath) ==
    [file |-> filePath,
     pc |-> IF filePath \in DOMAIN cache THEN "isCacheOutdated" ELSE "stat",
     mtime |-> 0, ver |-> 1, dependencies |-> <<>>, tokens |-> <<>>,
     i |-> 1, j |-> 1, k |-> 1, from |-> "",
     origin |-> <<>>, issued |-> <<>>, began |-> ntouches]

\* As ClassSelectorTokens, without the test against localTokenNames.
ClassSelectorTokens_NoLocalTest(filePath, css) ==
    LET classSelectors == collectNodes(css).classSelectors
        tok(k) == <<Token(classSelectors[k].value, Undefined,
                          Location(filePath, classSelectors[k].line))>>
        F[k \in 0..Len(classSelectors)] == IF k = 0 THEN <<>> ELSE F[k - 1] \o tok(k)
    IN F[Len(classSelectors)]

\* As ClassSelectorTokens, with the test against localTokenNames inverted.
ClassSelectorTokens_InvertedTest(filePath, css) ==
    LET classSelectors == collectNodes(css).classSelectors
        localTokenNames == generateLocalTokenNames(css)
        tok(k) == IF classSelectors[k].value \notin localTokenNames
                  THEN <<Token(classSelectors[k].value, Undefined,
                               Location(filePath, classSelectors[k].line))>>
                  ELSE <<>>
        F[k \in 0..Len(classSelectors)] == IF k = 0 THEN <<>> ELSE F[k - 1] \o tok(k)
    IN F[Len(classSelectors)]

\* The class-selector loop of _load: a token for each selector whose name
\* postcss-modules exports.
ClassSelectorTokens(filePath, css) ==
    LET classSelectors == collectNodes(css).classSelectors
        localTokenNames == generateLocalTokenNames(css)
        tok(k) == IF classSelectors[k].value \in localTokenNames
                  THEN <<Token(classSelectors[k].value, Undefined,
                               Location(filePath, classSelectors[k].line))>>
                  ELSE <<>>
        F[k \in 0..Len(classSelectors)] == IF k = 0 THEN <<>> ELSE F[k - 1] \o tok(k)
    IN F[Len(classSelectors)]

\* History: the loop (1 the @import loop, 2 the class-selector loop, 3 the
\* @value loop) and the position in it that appended each of n tokens.
Origins(loop, n) == [m \in 1..n |-> <<loop, m>>]
OriginsOf(loop, k, n) == [m \in 1..n |-> <<loop, k>>]

RECURSIVE RunLoops(_)
\* The synchronous run of _load through its three loops, from the
\* activation's position to its next await (a resolver call) or to its end.
RunLoops(fr) ==
    LET css == Content(fr.file, fr.ver)
        nodes == collectNodes(css)
    IN IF fr.pc = "atImports"
       THEN IF fr.i > Len(nodes.atImports)
            THEN RunLoops([fr EXCEPT
                     !.pc = "atValues",
                     !.tokens = @ \o ClassSelectorTokens(fr.file, css),
                     !.origin = @ \o Origins(2, Len(ClassSelectorTokens(fr.file, css)))])
            ELSE LET importedSheetPath == parseAtImport(nodes.atImports[fr.i])
                 IN IF importedSheetPath = <<>> \/ isIgnoredSpecifier(importedSheetPath[1])
                    THEN RunLoops([fr EXCEPT !.i = @ + 1])
                    ELSE [fr EXCEPT !.pc = "resolverImport"]
       ELSE IF fr.j > Len(nodes.atValues)
            THEN [fr EXCEPT !.pc = "return"]
            ELSE LET parsedAtValue == nodes.atValues[fr.j]
                 IN IF parsedAtValue.type = "valueDeclaration"
                    THEN RunLoops([fr EXCEPT
                             !.tokens = Append(@, Token(parsedAtValue.tokenName, Undefined,
                                                        Location(fr.file, parsedAtValue.line))),
                             !.origin = Append(@, <<3, fr.j>>),
                             !.j = @ + 1])
                    ELSE IF isIgnoredSpecifier(parsedAtValue.from)
                    THEN RunLoops([fr EXCEPT !.j = @ + 1])
                    ELSE [fr EXCEPT !.pc = "resolverValue"]

\* As MergeImport, with unshift in place of push for the tokens.
MergeImport_Unshift(fr, result) ==
    [fr EXCEPT !.pc = "atImports",
               !.dependencies = @ \o <<fr.from>> \o result.dependencies,
               !.tokens = result.tokens \o @,
               !.origin = OriginsOf(1, fr.i, Len(result.tokens)) \o @,
               !.i = @ + 1]

\* The body of the @import loop after `await this._load(from)`.
MergeImport(fr, result) ==
    [fr EXCEPT !.pc = "atImports",
               !.dependencies = @ \o <<fr.from>> \o result.dependencies,
               !.tokens = @ \o result.tokens,
               !.origin = @ \o OriginsOf(1, fr.i, Len(result.tokens)),
               !.i = @ + 1]

\* As ImportedTokens, with importedName set for every imported token.
ImportedTokens_AlwaysImportedName(imports, tokens) ==
    LET match(t) == {n \in DOMAIN imports : imports[n].importedTokenName = t.name}
        first(t) == imports[CHOOSE n \in match(t) : \A m \in match(t) : n <= m]
        tok(t) == IF match(t) = {} THEN <<>>
                  ELSE <<Token(first(t).localTokenName, first(t).importedTokenName,
                               t.originalLocation)>>
        F[k \in 0..Len(tokens)] == IF k = 0 THEN <<>> ELSE F[k - 1] \o tok(tokens[k])
    IN F[Len(tokens)]

\* The tokens an `@value ... from` takes from the loaded sheet.
ImportedTokens(imports, tokens) ==
    LET match(t) == {n \in DOMAIN imports : imports[n].importedTokenName = t.name}
        first(t) == imports[CHOOSE n \in match(t) : \A m \in match(t) : n <= m]
        tok(t) == IF match(t) = {} THEN <<>>
                  ELSE IF first(t).localTokenName = first(t).importedTokenName
                  THEN <<Token(first(t).localTokenName, Undefined, t.originalLocation)>>
                  ELSE <<Token(first(t).localTokenName, first(t).importedTokenName,
                               t.originalLocation)>>
        F[k \in 0..Len(tokens)] == IF k = 0 THEN <<>> ELSE F[k - 1] \o tok(tokens[k])
    IN F[Len(tokens)]

\* As MergeValue, without `dependencies.push(from, ...result.dependencies)`.
MergeValue_NoDependencies(fr, result) ==
    [fr EXCEPT !.pc = "atValues",
               !.tokens = @ \o ImportedTokens(Content(fr.file, fr.ver).atValues[fr.j].imports,
                                              result.tokens),
               !.origin = @ \o OriginsOf(3, fr.j,
                              Len(ImportedTokens(Content(fr.file, fr.ver).atValues[fr.j].imports,
                                                 result.tokens))),
               !.j = @ + 1]

\* The body of the @value loop after `await this._load(from)`.
MergeValue(fr, result) ==
    [fr EXCEPT !.pc = "atValues",
               !.dependencies = @ \o <<fr.from>> \o result.dependencies,
               !.tokens = @ \o ImportedTokens(Content(fr.file, fr.ver).atValues[fr.j].imports,
                                              result.tokens),
               !.origin = @ \o OriginsOf(3, fr.j,
                              Len(ImportedTokens(Content(fr.file, fr.ver).atValues[fr.j].imports,
                                                 result.tokens))),
               !.j = @ + 1]

\* As LoadingAfterSettle, but the flag is cleared only after `await` returned:
\* a rejected _load leaves it set.
LoadingAfterSettle_OnSuccessOnly(status) == status = "rejected"

\* `.finally(() => { this.loading = false })`: the flag after _load settled.
LoadingAfterSettle(status) == FALSE

\* The promise of the top-level load settles.
Settle(status, error, value) ==
    /\ stack' = <<>>
    /\ loading' = LoadingAfterSettle(status)
    /\ settled' = Promise(stack[1].file, status, error, value, clean[stack[1].file])
    /\ clean' = [clean EXCEPT ![stack[1].file] =
                     IF status = "fulfilled" /\ ~dirty THEN <<value>> ELSE <<>>]

\* As Throw, but the failure also drops the entries the load had stored.
Throw_ClearsCache(error) ==
    /\ Settle("rejected", error, EmptyResult)
    /\ cache' = <<>>
    /\ UNCHANGED <<disk, reads, dirty, stale, touchedSince, ncalls, ntouches>>

\* As Throw, but load catches the exception and answers an empty result.
Throw_Swallowed(error) ==
    /\ Settle("fulfilled", "none", EmptyResult)
    /\ UNCHANGED <<disk, cache, reads, dirty, stale, touchedSince, ncalls, ntouches>>

\* An exception in any activation: every awaiting caller rethrows it.
Throw(error) ==
    /\ Settle("rejected", error, EmptyResult)
    /\ UNCHANGED <<disk, cache, reads, dirty, stale, touchedSince, ncalls, ntouches>>

\* The innermost activation returns result to its caller.
Return(result) ==
    IF Len(stack) = 1
    THEN Settle("fulfilled", "none", result)
    ELSE LET caller == stack[Len(stack) - 1]
             merged == IF caller.pc = "loadImport" THEN MergeImport(caller, result)
                       ELSE MergeValue(caller, result)
         IN /\ stack' = Append(SubSeq(stack, 1, Len(stack) - 2), RunLoops(merged))
            /\ UNCHANGED <<loading, settled, clean>>

\* As LoadGuard, but only a second load of the same file is refused.
LoadGuard_SameFileOnly(filePath) == loading /\ stack[1].file = filePath

\* `if (this.loading) throw ...`
LoadGuard(filePath) == loading

\* As load, but the refused call clears the flag on its way out.
load_RejectClears(filePath) ==
    /\ ncalls < MaxCalls
    /\ ncalls' = ncalls + 1
    /\ IF LoadGuard(filePath)
       THEN /\ settled' = [file |-> filePath, status |-> "rejected",
                           error |-> "ConcurrentLoadError", value |-> EmptyResult,
                           prev |-> <<>>, reads |-> {}, stale |-> {}]
            /\ loading' = FALSE
            /\ UNCHANGED <<disk, cache, stack, reads, dirty, stale, clean,
                           touchedSince, ntouches>>
       ELSE /\ loading' = TRUE
            /\ stack' = <<NewFrame(filePath)>>
            /\ reads' = {}
            /\ dirty' = FALSE
            /\ stale' = IF filePath \in DOMAIN cache
                        THEN touchedSince[filePath]
                                 \cap Range(cache[filePath].result.dependencies)
                        ELSE {}
            /\ UNCHANGED <<disk, cache, settled, clean, touchedSince, ntouches>>

\* Locator.load, up to the first await of _load.
load(filePath) ==
    /\ ncalls < MaxCalls
    /\ ncalls' = ncalls + 1
    /\ IF LoadGuard(filePath)
       THEN /\ settled' = [file |-> filePath, status |-> "rejected",
                           error |-> "ConcurrentLoadError", value |-> EmptyResult,
                           prev |-> <<>>, reads |-> {}, stale |-> {}]
            /\ UNCHANGED <<disk, cache, loading, stack, reads, dirty, stale, clean,
                           touchedSince, ntouches>>
       ELSE /\ loading' = TRUE
            /\ stack' = <<NewFrame(filePath)>>
            /\ reads' = {}
            /\ dirty' = FALSE
            /\ stale' = IF filePath \in DOMAIN cache
                        THEN touchedSince[filePath]
                                 \cap Range(cache[filePath].result.dependencies)
                        ELSE {}
            /\ UNCHANGED <<disk, cache, settled, clean, touchedSince, ntouches>>

\* As NextDependency, but a dependency with no cache entry is passed over.
NextDependency_MissingIsFresh(fr, k) ==
    LET dependencies == cache[fr.file].result.dependencies
        F[n \in k..(Len(dependencies) + 1)] ==
            IF n > Len(dependencies) THEN [fr EXCEPT !.pc = "fresh"]
            ELSE IF dependencies[n] \notin DOMAIN cache THEN F[n + 1]
            ELSE [fr EXCEPT !.pc = "isCacheOutdatedDep", !.k = n]
    IN F[k]

\* isCacheOutdated from dependency k on, up to its next stat: "stat" when a
\* dependency has no entry, "fresh" after the last dependency.
NextDependency(fr, k) ==
    LET dependencies == cache[fr.file].result.dependencies
        F[n \in k..(Len(dependencies) + 1)] ==
            IF n > Len(dependencies) THEN [fr EXCEPT !.pc = "fresh"]
            ELSE IF dependencies[n] \notin DOMAIN cache THEN [fr EXCEPT !.pc = "stat"]
            ELSE [fr EXCEPT !.pc = "isCacheOutdatedDep", !.k = n]
    IN F[k]

\* The activation goes on after a stat of isCacheOutdated answered.
AfterCheck(fr) ==
    IF fr.pc = "fresh"
    THEN /\ Return(cache[fr.file].result)
         /\ UNCHANGED <<disk, cache, reads, dirty, stale, touchedSince, ncalls, ntouches>>
    ELSE /\ stack' = SetTop(fr)
         /\ UNCHANGED <<disk, cache, loading, settled, reads, dirty, stale, clean,
                        touchedSince, ncalls, ntouches>>

\* isCacheOutdated: `await stat(filePath)` and the comparison with the entry.
isCacheOutdated ==
    /\ stack # <<>>
    /\ Top.pc = "isCacheOutdated"
    /\ IF Top.file \notin DOMAIN disk THEN Throw("IOError")
       ELSE IF cache[Top.file].mtime # disk[Top.file].mtime
       THEN AfterCheck([Top EXCEPT !.pc = "stat"])
       ELSE AfterCheck(NextDependency(Top, 1))

\* isCacheOutdated: `await stat(dependency)` and the comparison with its entry.
isCacheOutdatedDep ==
    /\ stack # <<>>
    /\ Top.pc = "isCacheOutdatedDep"
    /\ LET dependency == cache[Top.file].result.dependencies[Top.k]
       IN IF dependency \notin DOMAIN disk THEN Throw("IOError")
          ELSE IF cache[dependency].mtime # disk[dependency].mtime
          THEN AfterCheck([Top EXCEPT !.pc = "stat"])
          ELSE AfterCheck(NextDependency(Top, Top.k + 1))

\* _load: `const mtime = (await stat(filePath)).mtime.getTime()`
statFile ==
    /\ stack # <<>>
    /\ Top.pc = "stat"
    /\ IF Top.file \notin DOMAIN disk THEN Throw("IOError")
       ELSE /\ stack' = SetTop([Top EXCEPT !.pc = "readFile", !.mtime = disk[Top.file].mtime])
            /\ UNCHANGED <<disk, cache, loading, settled, reads, dirty, stale, clean,
                           touchedSince, ncalls, ntouches>>

\* readCSS: `await readFile(filePath, 'utf-8')`
readFile ==
    /\ stack # <<>>
    /\ Top.pc = "readFile"
    /\ IF Top.file \notin DOMAIN disk THEN Throw("IOError")
       ELSE /\ stack' = SetTop([Top EXCEPT !.pc = "transformer", !.ver = disk[Top.file].ver])
            /\ reads' = reads \cup {Top.file}
            /\ UNCHANGED <<disk, cache, loading, settled, dirty, stale, clean,
                           touchedSince, ncalls, ntouches>>

\* readCSS after `await this.transformer(...)`, then postcss.parse.
transformer ==
    /\ stack # <<>>
    /\ Top.pc = "transformer"
    /\ LET css == Content(Top.file, Top.ver)
           result == IF css.handled THEN NormaliseDeps(css.tdeps)
                     ELSE [throw |-> FALSE, deps |-> <<>>]
       IN IF result.throw THEN Throw("UnsupportedProtocolError")
          ELSE IF ~css.valid THEN Throw("CssSyntaxError")
          ELSE /\ stack' = SetTop([Top EXCEPT !.pc = "generateLocalTokenNames",
                                              !.dependencies = result.deps])
               /\ UNCHANGED <<disk, cache, loading, settled, reads, dirty, stale, clean,
                              touchedSince, ncalls, ntouches>>

\* _load after `await generateLocalTokenNames(ast)`: collectNodes and the
\* loops up to the first resolver call.
localTokenNames ==
    /\ stack # <<>>
    /\ Top.pc = "generateLocalTokenNames"
    /\ stack' = SetTop(RunLoops([Top EXCEPT !.pc = "atImports"]))
    /\ UNCHANGED <<disk, cache, loading, settled, reads, dirty, stale, clean,
                   touchedSince, ncalls, ntouches>>

\* The strict resolver of the constructor answered: an exception when the
\* resolver said false, else the recursive _load starts.
Resolved(specifier, awaiting) ==
    LET resolved == ResolverTable(specifier)
    IN IF resolved = <<>> THEN Throw("ResolutionError")
       ELSE /\ Len(stack) < MaxDepth
            /\ stack' = Append(SetTop([Top EXCEPT
                                           !.pc = awaiting, !.from = resolved[1],
                                           !.issued = Append(@, IF awaiting = "loadImport"
                                                                THEN <<1, Top.i>>
                                                                ELSE <<3, Top.j>>)]),
                               NewFrame(resolved[1]))
            /\ UNCHANGED <<disk, cache, loading, settled, reads, dirty, stale, clean,
                           touchedSince, ncalls, ntouches>>

\* The @import loop: `await this.resolver(importedSheetPath, ...)`
resolverImport ==
    /\ stack # <<>>
    /\ Top.pc = "resolverImport"
    /\ Resolved(parseAtImport(Content(Top.file, Top.ver).atImports[Top.i])[1], "loadImport")

\* The @value loop: `await this.resolver(parsedAtValue.from, ...)`
resolverValue ==
    /\ stack # <<>>
    /\ Top.pc = "resolverValue"
    /\ Resolved(Content(Top.file, Top.ver).atValues[Top.j].from, "loadValue")

\* As LoadResult, without `.filter((dep) => dep !== filePath)`.
LoadResult_KeepSelf(filePath, dependencies, tokens) ==
    [dependencies |-> unique(dependencies), tokens |-> uniqueTokens(tokens)]

\* As LoadResult, without uniqueBy on the tokens.
LoadResult_KeepDuplicateTokens(filePath, dependencies, tokens) ==
    [dependencies |-> Filter(unique(dependencies), filePath), tokens |-> tokens]

\* The result _load builds from what it collected.
LoadResult(filePath, dependencies, tokens) ==
    [dependencies |-> Filter(unique(dependencies), filePath),
     tokens |-> uniqueTokens(tokens)]

\* As CacheEntry, with the mtime the file has when the entry is stored.
CacheEntry_StatAtEnd(fr, result) == [mtime |-> disk[fr.file].mtime, result |-> result]

\* `{ mtime, result }`: mtime is the one _load sampled before readCSS.
CacheEntry(fr, result) == [mtime |-> fr.mtime, result |-> result]

\* _load: the result, `this.cache.set(filePath, { mtime, result })`, return.
return ==
    /\ stack # <<>>
    /\ Top.pc = "return"
    /\ LET result == LoadResult(Top.file, Top.dependencies, Top.tokens)
       IN /\ cache' = [p \in DOMAIN cache \cup {Top.file} |->
                          IF p = Top.file THEN CacheEntry(Top, result)
                          ELSE cache[p]]
          /\ touchedSince' = [touchedSince EXCEPT ![Top.file] = {}]
          /\ Return(result)
    /\ UNCHANGED <<disk, reads, dirty, stale, ncalls, ntouches>>

\* Another process writes file f: a new mtime, and any of its contents.
Touch(f) ==
    /\ ntouches < MaxTouches
    /\ ntouches' = ntouches + 1
    /\ \E v \in Versions(f) :
          disk' = [disk EXCEPT ![f] = [mtime |-> @.mtime + 1, ver |-> v]]
    /\ dirty' = TRUE
    /\ clean' = [p \in Paths |-> <<>>]
    /\ touchedSince' = [p \in Paths |-> touchedSince[p] \cup {f}]
    /\ UNCHANGED <<cache, loading, stack, settled, reads, stale, ncalls>>

Next ==
    \/ \E filePath \in Roots : load(filePath)
    \/ isCacheOutdated
    \/ isCacheOutdatedDep
    \/ statFile
    \/ readFile
    \/ transformer
    \/ localTokenNames
    \/ resolverImport
    \/ resolverValue
    \/ return
    \/ \E f \in Touchable : Touch(f)

Spec == Init /\ [][Next]_vars

TypeOK ==
    /\ loading \in BOOLEAN
    /\ Len(stack) <= MaxDepth
    /\ DOMAIN cache \subseteq Paths

\* ------------------------------------------------------------ properties
Fulfilled == settled.status = "fulfilled"
InFlight == stack # <<>>
\* The step is a call of load().
Called == ncalls' # ncalls

\* C1: a call of load() made while an accepted load has not settled is
\* rejected with the concurrent-load error and changes nothing of the load
\* in flight, whatever the two files are and wherever the first load waits.
C1_ConcurrentLoadRejected ==
    [][(InFlight /\ Called) =>
          /\ settled'.status = "rejected"
          /\ settled'.error = "ConcurrentLoadError"
          /\ UNCHANGED <<stack, cache, loading>>]_vars

\* A load of the file in flight was refused while a nested _load waited
\* for its readFile.
C1_Witness ==
    /\ Len(stack) = 2
    /\ Top.pc = "readFile"
    /\ settled.error = "ConcurrentLoadError"
    /\ settled.file = stack[1].file

\* C2: when the load in flight settles, fulfilled or rejected, the flag is
\* false, and the next call of load() is accepted.
C2_FlagClearedOnSettle ==
    [][/\ (InFlight /\ stack' = <<>>) => ~loading'
       /\ (~InFlight /\ Called) => (loading' /\ stack' # <<>> /\ settled' = settled)]_vars

\* A load is in flight that was accepted after a load failed.
C2_Witness ==
    /\ settled.status = "rejected"
    /\ settled.error \in {"IOError", "CssSyntaxError", "ResolutionError",
                          "UnsupportedProtocolError"}
    /\ InFlight
    /\ loading

\* C3: a file that is being loaded is not read again by a nested _load: on
\* re-entry the cache check answers from the cache, so the load ends.
C3_ReentryStopsAtCache ==
    \A a, b \in DOMAIN stack :
        (a < b /\ stack[a].file = stack[b].file)
            => stack[b].pc \in {"isCacheOutdated", "isCacheOutdatedDep"}

\* C4: a load of F that is fulfilled after an earlier fulfilled load of F,
\* with no file modified since that earlier load was called, returns an
\* equal result and calls readFile on no file.
C4_SecondLoadReadsNothing ==
    (Fulfilled /\ settled.prev # <<>>)
        => (settled.value = settled.prev[1] /\ settled.reads = {})

\* C5: when a dependency of the cached result of F was modified after that
\* result was stored and before load(F) is called, the load reads F again.
C5_ModifiedDependencyRereads ==
    (Fulfilled /\ settled.stale # {}) => settled.file \in settled.reads

NoDuplicates(seq) == \A a, b \in DOMAIN seq : a # b => seq[a] # seq[b]
\* Every LoadResult there is: the cached ones and the one returned last.
Results ==
    {[file |-> f, result |-> cache[f].result] : f \in DOMAIN cache}
        \cup (IF Fulfilled THEN {[file |-> settled.file, result |-> settled.value]} ELSE {})

\* C6: the dependencies of a LoadResult of F hold no path twice and not F.
C6_DependenciesUniqueWithoutSelf ==
    \A r \in Results :
        /\ NoDuplicates(r.result.dependencies)
        /\ r.file \notin Range(r.result.dependencies)

\* theme.scss, whose transformer names theme.scss itself (twice), and
\* index.css, which imports base.css twice, have been loaded.
C6_Witness ==
    /\ "theme.scss" \in DOMAIN cache
    /\ "index.css" \in DOMAIN cache
    /\ cache["theme.scss"].result.dependencies = <<"_vars.scss">>
    /\ cache["index.css"].result.dependencies = <<"base.css">>

TokenKey(t) == <<t.name, t.importedName, t.originalLocation>>
FirstIndex(seq, x) == CHOOSE n \in DOMAIN seq : seq[n] = x /\ \A m \in 1..(n - 1) : seq[m] # x

\* C7: when _load stores a result, its tokens are the assembled tokens
\* without repetition of a (name, importedName, originalLocation), in the
\* order of their first occurrence; so no LoadResult repeats a token.
C7_TokensUniqueInFirstSeenOrder ==
    [][(InFlight /\ Top.pc = "return" /\ stack' # stack) =>
          LET kept == cache'[Top.file].result.tokens
              assembled == Top.tokens
          IN /\ \A a, b \in DOMAIN kept : a # b => TokenKey(kept[a]) # TokenKey(kept[b])
             /\ Range(kept) = Range(assembled)
             /\ \A a, b \in DOMAIN kept :
                    a < b => FirstIndex(assembled, kept[a]) < FirstIndex(assembled, kept[b])]_vars

\* index.css was loaded when base.css had two classes: the assembled list
\* was base, extra, base, extra.
C7_Witness ==
    /\ "index.css" \in DOMAIN cache
    /\ Len(cache["index.css"].result.tokens) = 2

\* The sheet has no local class selector and no @value at-rule.
NoLocalToken(f) ==
    \A v \in Versions(f) :
        generateLocalTokenNames(Content(f, v)) = {} /\ Content(f, v).atValues = <<>>

\* The sheets f names in an @import that is resolved.
Imported(f) ==
    UNION {{ResolverTable(sp)[1] : sp \in {s \in Range(Content(f, v).atImports) :
                                               /\ parseAtImport(s) # <<>>
                                               /\ ~isIgnoredSpecifier(s)
                                               /\ ResolverTable(s) # <<>>}}
           : v \in Versions(f)}

RECURSIVE ReachableFrom(_, _)
ReachableFrom(frontier, seen) ==
    LET next == (UNION {Imported(f) : f \in frontier}) \ seen
    IN IF next = {} THEN seen ELSE ReachableFrom(next, seen \cup next)

C9_DependenciesAreCached ==
    Fulfilled => Range(settled.value.dependencies) \subseteq DOMAIN cache

RootToken == Token("root", Undefined, Location("composer.css", 1))

\* C10 as stated: composer.css has the one token root, and base.css, which
\* it composes from, is among its dependencies.
C10_ComposesIsDependency ==
    (Fulfilled /\ settled.file = "composer.css")
        => /\ settled.value.tokens = <<RootToken>>
           /\ "base.css" \in Range(settled.value.dependencies)

\* C10 as amended: composer.css has the one token root and no dependency;
\* the sheet it composes from is neither loaded nor read.
C10_ComposesIsNoDependency ==
    (Fulfilled /\ settled.file = "composer.css")
        => /\ settled.value.tokens = <<RootToken>>
           /\ settled.value.dependencies = <<>>
           /\ settled.reads \subseteq {"composer.css"}

\* A load of composer.css was fulfilled.
C10_Witness ==
    /\ Fulfilled
    /\ settled.file = "composer.css"
    /\ settled.reads = {"composer.css"}

\* (loop, position) pairs in the order of the code's loops.
Before(x, y) == x[1] < y[1] \/ (x[1] = y[1] /\ x[2] < y[2])

\* C11: in every activation of _load the tokens assembled so far are those
\* of the @imports in document order, then those of the class selectors in
\* document order, then those of the @value at-rules in document order; the
\* recursive loads were started in that order, and one at a time: only the
\* innermost activation runs, each other one awaits the one above it.
C11_TokensInLoopOrder ==
    /\ \A n \in DOMAIN stack :
          LET fr == stack[n]
          IN /\ Len(fr.origin) = Len(fr.tokens)
             /\ \A a, b \in DOMAIN fr.origin :
                   a < b =>
                      /\ fr.origin[a] = fr.origin[b] \/ Before(fr.origin[a], fr.origin[b])
                      /\ (fr.origin[a][1] = 2 /\ fr.origin[b][1] = 2)
                            => fr.tokens[a].originalLocation.line
                                  < fr.tokens[b].originalLocation.line
             /\ \A a, b \in DOMAIN fr.issued : a < b => Before(fr.issued[a], fr.issued[b])
             /\ \A a \in DOMAIN fr.origin :
                   fr.origin[a][1] = 1 => fr.origin[a] \in Range(fr.issued)
    /\ \A n \in 1..(Len(stack) - 1) :
          /\ stack[n].pc \in {"loadImport", "loadValue"}
          /\ stack[n + 1].file = stack[n].from
    /\ InFlight => Top.pc \notin {"loadImport", "loadValue"}

\* app.css is about to return: it assembled tokens of its @imports, of its
\* class selector and of its @value at-rules, after three recursive loads.
C11_Witness ==
    /\ InFlight
    /\ Top.file = "app.css"
    /\ Top.pc = "return"
    /\ {Top.origin[a][1] : a \in DOMAIN Top.origin} = {1, 2, 3}
    /\ Top.issued = <<<<1, 1>>, <<1, 2>>, <<3, 2>>>>

\* The step in which the sheet of an `@value ... from` has been loaded and
\* the importing activation takes its tokens.
ValueImportReturns ==
    /\ Len(stack) >= 2
    /\ stack[Len(stack) - 1].pc = "loadValue"
    /\ Len(stack') = Len(stack) - 1
Importer == stack[Len(stack) - 1]
ImporterAfter == stack'[Len(stack')]
\* The result the loaded sheet returned, and the declaration that asked for it.
Returned == cache'[Top.file].result
Declaration == Content(Importer.file, Importer.ver).atValues[Importer.j]
\* The tokens the importing activation appended in the step.
Added == SubSeq(ImporterAfter.tokens, Len(Importer.tokens) + 1, Len(ImporterAfter.tokens))
\* Entry n is the first entry of the declaration that names importedTokenName.
FirstEntry(imports, n) ==
    \A m \in 1..(n - 1) : imports[m].importedTokenName # imports[n].importedTokenName

\* C12: for every token T of the loaded sheet and the entry of the
\* declaration that names T, the importing sheet gets a token with the
\* entry's localTokenName and the location of T, with importedName set to
\* the imported name exactly when the two names differ.
C12_ValueImportTokens ==
    [][ValueImportReturns =>
          \A T \in Range(Returned.tokens) :
             \A n \in DOMAIN Declaration.imports :
                (Declaration.imports[n].importedTokenName = T.name
                    /\ FirstEntry(Declaration.imports, n))
                   => \E t \in Range(Added) :
                         /\ t.name = Declaration.imports[n].localTokenName
                         /\ t.originalLocation = T.originalLocation
                         /\ t.originalLocation.filePath # Importer.file
                         /\ (t.importedName # Undefined)
                               <=> (Declaration.imports[n].localTokenName
                                       # Declaration.imports[n].importedTokenName)
                         /\ t.importedName \in {Undefined,
                                                Declaration.imports[n].importedTokenName}]_vars

\* values.css was loaded when base.css had the classes base and extra: it
\* has base under its own name and extra under the alias x.
C12_Witness ==
    /\ Fulfilled
    /\ settled.file = "values.css"
    /\ Token("base", Undefined, Location("base.css", 1)) \in Range(settled.value.tokens)
    /\ Token("x", "extra", Location("base.css", 2)) \in Range(settled.value.tokens)

\* C13: an entry of the declaration whose importedTokenName the loaded
\* sheet does not export gives no token and no error: the importing
\* activation goes on, with the loaded sheet and its dependencies among its
\* dependencies; values.css, which has such an entry, never fails.
C13_MissingImportedName ==
    [][/\ ValueImportReturns =>
             /\ \A n \in DOMAIN Declaration.imports :
                   (\A T \in Range(Returned.tokens) :
                        T.name # Declaration.imports[n].importedTokenName)
                      => \A t \in Range(Added) : t.name # Declaration.imports[n].localTokenName
             /\ Importer.from \in Range(ImporterAfter.dependencies)
             /\ Range(Returned.dependencies) \subseteq Range(ImporterAfter.dependencies)
             /\ settled' = settled
       /\ (settled'.file = "values.css" /\ settled'.status = "rejected")
             => settled'.error = "ConcurrentLoadError"]_vars

\* values.css, which asks base.css for nope, was loaded: no token nope, and
\* base.css is a dependency.
C13_Witness ==
    /\ Fulfilled
    /\ settled.file = "values.css"
    /\ \A t \in Range(settled.value.tokens) : t.name # "nope"
    /\ "base.css" \in Range(settled.value.dependencies)

\* A specifier that starts with http:// or https://.
Remote(specifier) == specifier \in StartsWithHttp \cup StartsWithHttps

\* C14: no activation asks the resolver about, or awaits the load of, an
\* @import or `@value ... from` whose specifier is remote; no remote
\* specifier is among the dependencies of an activation or of a cached
\* result or is a cached path; and index.css and values.css, which have
\* remote specifiers, never fail.
C14_RemoteSpecifiersSkipped ==
    /\ \A n \in DOMAIN stack :
          LET fr == stack[n]
              css == Content(fr.file, fr.ver)
          IN /\ fr.pc \in {"resolverImport", "loadImport"} => ~Remote(css.atImports[fr.i])
             /\ fr.pc \in {"resolverValue", "loadValue"} => ~Remote(css.atValues[fr.j].from)
             /\ \A d \in Range(fr.dependencies) : ~Remote(d)
             /\ ~Remote(fr.file)
    /\ \A f \in DOMAIN cache :
          /\ ~Remote(f)
          /\ \A d \in Range(cache[f].result.dependencies) : ~Remote(d)
    /\ (settled.file \in {"index.css", "values.css"} /\ settled.status = "rejected")
          => settled.error = "ConcurrentLoadError"

\* index.css, with a remote @import between two imports of base.css, was
\* loaded: base.css is its only dependency.
C14_Witness ==
    /\ Fulfilled
    /\ settled.file = "index.css"
    /\ settled.value.dependencies = <<"base.css">>
    /\ \E n \in DOMAIN Content("index.css", 1).atImports :
          Remote(Content("index.css", 1).atImports[n])

\* The failure the step of activation fr meets, "none" when it meets none.
ErrorAt(fr) ==
    LET css == Content(fr.file, fr.ver)
    IN CASE fr.pc \in {"isCacheOutdated", "stat", "readFile"} /\ fr.file \notin DOMAIN disk
              -> "IOError"
         [] fr.pc = "isCacheOutdatedDep"
               /\ cache[fr.file].result.dependencies[fr.k] \notin DOMAIN disk
              -> "IOError"
         [] fr.pc = "transformer" /\ css.handled
               /\ \E n \in DOMAIN css.tdeps :
                     css.tdeps[n].kind = "url" /\ css.tdeps[n].protocol # "file:"
              -> "UnsupportedProtocolError"
         [] fr.pc = "transformer" /\ ~css.valid
               /\ ~(css.handled /\ \E n \in DOMAIN css.tdeps :
                       css.tdeps[n].kind = "url" /\ css.tdeps[n].protocol # "file:")
              -> "CssSyntaxError"
         [] fr.pc = "resolverImport" /\ ResolverTable(css.atImports[fr.i]) = <<>>
              -> "ResolutionError"
         [] fr.pc = "resolverValue" /\ ResolverTable(css.atValues[fr.j].from) = <<>>
              -> "ResolutionError"
         [] OTHER -> "none"

\* C15: when the step of the innermost activation, at any depth, fails, the
\* load of the root fails in that step with that error and with no result;
\* and a load is fulfilled only by a step that met no failure.
C15_ErrorsPropagate ==
    [][(InFlight /\ stack' # stack) =>
          IF ErrorAt(Top) # "none"
          THEN /\ stack' = <<>>
               /\ settled'.file = stack[1].file
               /\ settled'.status = "rejected"
               /\ settled'.error = ErrorAt(Top)
               /\ settled'.value = EmptyResult
          ELSE settled' # settled => settled'.status = "fulfilled"]_vars

\* outer.css imports broken.css, whose second @import cannot be resolved:
\* the load of outer.css fails with the error met one level down, after
\* base.css, the first @import of broken.css, was loaded.
C15_Witness ==
    /\ settled.file = "outer.css"
    /\ settled.status = "rejected"
    /\ settled.error = "ResolutionError"
    /\ settled.value = EmptyResult
    /\ "base.css" \in DOMAIN cache

\* The step in which the transformer answered with its dependencies.
TransformerAnswers ==
    /\ InFlight
    /\ Top.pc = "transformer"
    /\ Content(Top.file, Top.ver).handled
    /\ stack' # stack
Reported == Content(Top.file, Top.ver).tdeps
\* A dependency as the transformer reports it: a remote one, in either
\* form, and a structured one the Locator has no support for.
RemoteString(dep) == dep.kind = "string" /\ Remote(dep.pathname)
RemoteUrl(dep) == dep.kind = "url" /\ dep.protocol \in {"http:", "https:"}
OtherProtocol(dep) == dep.kind = "url" /\ dep.protocol \notin {"file:", "http:", "https:"}
\* The step in which a load of a transformed sheet is fulfilled.
TransformedFulfils ==
    /\ settled' # settled
    /\ settled'.status = "fulfilled"
    /\ Content(settled'.file, disk[settled'.file].ver).handled
ReportedBy(f) == Content(f, disk[f].ver).tdeps

\* C16, as stated: a remote dependency, string or structured, is left out
\* without a failure; a structured one with another protocol than file:
\* fails the load with the unsupported-protocol error; every other one is in
\* the dependencies of the activation and of the result of the load.
C16_RemoteExcludedInEitherForm ==
    [][/\ TransformerAnswers =>
             IF \E n \in DOMAIN Reported : OtherProtocol(Reported[n])
             THEN settled'.status = "rejected" /\ settled'.error = "UnsupportedProtocolError"
             ELSE /\ Content(Top.file, Top.ver).valid => stack' # <<>>
                  /\ Range(stack'[Len(stack')].dependencies)
                        = {Reported[n].pathname :
                              n \in {m \in DOMAIN Reported :
                                        ~RemoteString(Reported[m]) /\ ~RemoteUrl(Reported[m])}}
       /\ TransformedFulfils =>
             \A n \in DOMAIN ReportedBy(settled'.file) :
                LET dep == ReportedBy(settled'.file)[n]
                IN IF RemoteString(dep) \/ RemoteUrl(dep)
                   THEN dep.pathname \notin Range(settled'.value.dependencies)
                   ELSE dep.pathname \in Range(settled'.value.dependencies)]_vars

\* C16, amended: a remote dependency reported as a string is left out
\* without a failure; a structured one with any other protocol than file:,
\* http: and https: included, fails the load with the unsupported-protocol
\* error; every other one is in the dependencies of the activation, and in
\* those of the result unless it is the loaded file itself.
C16_RemoteStringsExcluded ==
    [][/\ TransformerAnswers =>
             IF \E n \in DOMAIN Reported : OtherProtocol(Reported[n]) \/ RemoteUrl(Reported[n])
             THEN /\ stack' = <<>>
                  /\ settled'.status = "rejected"
                  /\ settled'.error = "UnsupportedProtocolError"
             ELSE /\ Content(Top.file, Top.ver).valid => stack' # <<>>
                  /\ Range(stack'[Len(stack')].dependencies)
                        = {Reported[n].pathname :
                              n \in {m \in DOMAIN Reported : ~RemoteString(Reported[m])}}
       /\ TransformedFulfils =>
             /\ settled'.file \notin Range(settled'.value.dependencies)
             /\ \A n \in DOMAIN ReportedBy(settled'.file) :
                   LET dep == ReportedBy(settled'.file)[n]
                   IN IF RemoteString(dep)
                      THEN dep.pathname \notin Range(settled'.value.dependencies)
                      ELSE dep.pathname # settled'.file
                              => dep.pathname \in Range(settled'.value.dependencies)]_vars

\* theme.scss, whose transformer reported itself, a file: URL and a remote
\* string, was loaded with the file of the URL as its only dependency; then
\* cdn.less, whose transformer reported an https: URL, failed.
C16_Witness ==
    /\ "theme.scss" \in DOMAIN cache
    /\ cache["theme.scss"].result.dependencies = <<"_vars.scss">>
    /\ settled.file = "cdn.less"
    /\ settled.status = "rejected"
    /\ settled.error = "UnsupportedProtocolError"

\* What the staleness check of path f is to answer in the current state.
Outdated(f) ==
    \/ f \notin DOMAIN cache
    \/ cache[f].mtime # disk[f].mtime
    \/ \E d \in Range(cache[f].result.dependencies) :
          \/ d \notin DOMAIN cache
          \/ cache[d].mtime # disk[d].mtime
\* A step of the staleness check of the innermost activation that met no
\* I/O failure, and its two answers.
CheckSteps ==
    /\ InFlight
    /\ Top.pc \in {"isCacheOutdated", "isCacheOutdatedDep"}
    /\ stack' # stack
    /\ ErrorAt(Top) = "none"
AnswersOutdated == Len(stack') = Len(stack) /\ stack'[Len(stack')].pc = "stat"
AnswersFresh == Len(stack') = Len(stack) - 1
\* No file was modified since the check of the innermost activation began.
Undisturbed == Top.began = ntouches

\* C17: the staleness check answers true at once exactly when the path has
\* no entry; when it answers true after a stat, the path is outdated; when
\* no file was modified while the check ran, it answers false only for a
\* path that is not outdated, so that it answers true exactly for the
\* outdated paths; and no step of the check changes the cache.
C17_StalenessCheck ==
    [][/\ Len(stack') = Len(stack) + 1 =>
             /\ stack'[Len(stack')].pc = "stat"
                   <=> stack'[Len(stack')].file \notin DOMAIN cache
             /\ stack'[Len(stack')].pc \in {"stat", "isCacheOutdated"}
             /\ cache' = cache
       /\ CheckSteps =>
             /\ AnswersOutdated => Outdated(Top.file)
             /\ (AnswersFresh /\ Undisturbed) => ~Outdated(Top.file)
             /\ AnswersOutdated \/ AnswersFresh
                   \/ (Len(stack') = Len(stack)
                          /\ stack'[Len(stack')].pc = "isCacheOutdatedDep")
             /\ cache' = cache]_vars

\* The second load of app.css after base.css was modified: the entry of
\* app.css has the mtime of the file, and the check answered true because
\* of the dependency.
C17_Witness ==
    /\ InFlight
    /\ Len(stack) = 1
    /\ Top.file = "app.css"
    /\ Top.pc = "stat"
    /\ "app.css" \in DOMAIN cache
    /\ cache["app.css"].mtime = disk["app.css"].mtime
    /\ Outdated("app.css")

\* C18: the flag is set for as long as a load is in flight; it changes
\* only when a load is accepted (to set) and when the load in flight settles
\* (to clear), so no step of a recursive load changes it; and a call made
\* while a load is in flight is rejected and leaves the flag set.
C18_FlagHeldWhileInFlight ==
    [][/\ InFlight => loading
       /\ InFlight' => loading'
       /\ loading' # loading =>
             \/ ~InFlight /\ Called /\ Len(stack') = 1 /\ loading'
             \/ InFlight /\ ~InFlight' /\ ~loading'
       /\ (InFlight /\ InFlight' /\ ~Called) => loading' = loading
       /\ (Called /\ InFlight) =>
             /\ settled'.status = "rejected"
             /\ settled'.error = "ConcurrentLoadError"
             /\ loading'
             /\ stack' = stack]_vars

\* A call was rejected while the load in flight was two activations deep,
\* and the flag is still set.
C18_Witness ==
    /\ InFlight
    /\ Len(stack) >= 2
    /\ settled.status = "rejected"
    /\ settled.error = "ConcurrentLoadError"
    /\ ncalls = 2
    /\ loading

\* C19: the cache changes only in the step in which an activation completes
\* with its result, and then only the entry of that activation's file, which
\* gets that result; a step in which a load fails leaves every entry, of the
\* failing file and of the sheets already loaded, as it was.
C19_CacheWrittenOnCompletion ==
    [][/\ cache' # cache =>
             /\ InFlight
             /\ Top.pc = "return"
             /\ Len(stack') = Len(stack) - 1
             /\ DOMAIN cache' = DOMAIN cache \cup {Top.file}
             /\ \A f \in DOMAIN cache \ {Top.file} : cache'[f] = cache[f]
             /\ Len(stack) = 1 =>
                   /\ settled'.status = "fulfilled"
                   /\ settled'.value = cache'[Top.file].result
       /\ (settled' # settled /\ settled'.status = "rejected") => cache' = cache
       /\ \A n \in DOMAIN stack :
             (n < Len(stack) /\ stack[n].file # Top.file /\ stack[n].file \in DOMAIN cache)
                => /\ stack[n].file \in DOMAIN cache'
                   /\ cache'[stack[n].file] = cache[stack[n].file]]_vars

\* The load of broken.css failed at its second @import: base.css, its
\* first, has its entry, and broken.css has none.
C19_Witness ==
    /\ settled.file = "broken.css"
    /\ settled.status = "rejected"
    /\ settled.error = "ResolutionError"
    /\ "base.css" \in DOMAIN cache
    /\ "broken.css" \notin DOMAIN cache

\* The result of a load of f, a sheet with no @import and no @value, from
\* version v of its content.
FromContent(f, v) == LoadResult(f, <<>>, ClassSelectorTokens(f, Content(f, v)))

\* C20: an activation that has read its file holds an mtime sampled no
\* later than the content; the entry it stores has that mtime; an entry of
\* a modified file whose mtime is the file's current mtime has the result of
\* the file's current content; and the check of a path whose entry has
\* another mtime than the file answers true, so that the file is read again.
C20_EntryNeverNewerThanContent ==
    [][/\ \A n \in DOMAIN stack :
             stack[n].pc \notin {"isCacheOutdated", "isCacheOutdatedDep", "stat"}
                => /\ stack[n].mtime >= 1
                   /\ stack[n].mtime <= disk[stack[n].file].mtime
       /\ (InFlight /\ Top.pc = "return" /\ stack' # stack) =>
             /\ cache'[Top.file].mtime = Top.mtime
             /\ Top.file \in reads
       /\ \A f \in Touchable \cap DOMAIN cache' :
             cache'[f].mtime = disk'[f].mtime => cache'[f].result = FromContent(f, disk'[f].ver)
       /\ (CheckSteps /\ Top.pc = "isCacheOutdated"
              /\ cache[Top.file].mtime # disk[Top.file].mtime) => AnswersOutdated]_vars

\* base.css was modified between the stat and the read of its load: the
\* entry has the result of the new content and the mtime of the old one, so
\* it is outdated.
C20_Witness ==
    /\ "base.css" \in DOMAIN cache
    /\ cache["base.css"].mtime = 1
    /\ disk["base.css"] = [mtime |-> 2, ver |-> 2]
    /\ cache["base.css"].result = FromContent("base.css", 2)
    /\ Outdated("base.css")

====
